---- MODULE Spec2Model ----
(***************************************************************************)
(* Model of v2ray_config_generator.py: one run of main(), from argument    *)
(* parsing through the subscription decoder, the two config builds and the *)
(* four output writes.                                                     *)
(*                                                                         *)
(* Representation.  A Python exception raised by a pure function is the    *)
(* result record [ok |-> FALSE, exc |-> <class name>]; a normal return is  *)
(* [ok |-> TRUE, val |-> <value>].  A JSON value is [type |-> "object",    *)
(* members |-> <function from keys to values>] or [type |-> "number"].     *)
(* A subscription line is a record [scheme, body]: scheme is the first 8   *)
(* characters of the URI, body is url[8:] described by what decoding it    *)
(* yields (invalid base64 / bytes that are not UTF-8 / text that is not    *)
(* JSON / a JSON value).                                                   *)
(***************************************************************************)
EXTENDS Integers, Sequences, FiniteSets, TLC

\* ---------------------------------------------------------------------------
\* Program constants (src/v2ray_config_generator.py:29-39)
\* ---------------------------------------------------------------------------
DEFAULT_SOCKS_PORT == 50001
DEFAULT_HTTP_PORT == 51001
DEFAULT_OUT_SERVER_INDEX == 29
DECODED_URLS_FILE == "./server_list/decoded_server_urls.txt"
SERVER_DETAILS_FILE == "./server_list/parsed_server_details.txt"
DEFAULT_SUBSCRIBE_FILE == "./server_list/downloaded_subscription.txt"
V2RAY_CONFIG_FILE == "./config/config.json"
INBOUND_OUTBOUND_MAP_FILE == "./config/inbound_outbound_map.json"
INBOUND_OUTBOUND_MAP_CSV_FILE == "./config/inbound_outbound_map.csv"

\* ---------------------------------------------------------------------------
\* Bounds of the model
\* ---------------------------------------------------------------------------
\* subscriptions have 0..MaxShort lines, or DEFAULT_OUT_SERVER_INDEX ..
\* DEFAULT_OUT_SERVER_INDEX + MaxExtra lines
MaxShort == 2
MaxExtra == 2

\* a local name of main() that is not bound yet holds Unbound, a bound one the
\* one-element sequence of its value
Unbound == <<>>
Bound(v) == <<v>>
\* Python's None (the result of dict.get on an absent key); no modelled string
\* has this value
None == "<None>"

Ok(v) == [ok |-> TRUE, val |-> v]
Raise(e) == [ok |-> FALSE, exc |-> e]

\* ---------------------------------------------------------------------------
\* Python dict / list primitives on JSON values
\* ---------------------------------------------------------------------------
IsDict(v) == v.type = "object"
Has(v, k) == k \in DOMAIN v.members
\* dict.get(k, default)
Get(v, k, default) == IF Has(v, k) THEN v.members[k] ELSE default
\* the integers whose decimal form occurs as a field value in the inputs
IntLiterals == {0, 443}
\* int(s) for a str s: the integer whose decimal form is s, else ValueError
IntOf(s) ==
    IF \E n \in IntLiterals : ToString(n) = s
    THEN Ok(CHOOSE n \in IntLiterals : ToString(n) = s)
    ELSE Raise("ValueError")

\* ---------------------------------------------------------------------------
\* Inputs: subscription lines
\* ---------------------------------------------------------------------------
NodeName(i) == "node" \o ToString(i)
\* the JSON object of a well-formed node with display name nm
NodeObject(nm) ==
    [type |-> "object",
     members |-> [add |-> "a.example.com", port |-> "443", id |-> "uuid-1",
                  aid |-> "0", ps |-> nm, net |-> "ws", tls |-> "tls",
                  host |-> "h.example.com", path |-> "/ray", alpn |-> "h2"]]
Without(v, k) ==
    [type |-> "object",
     members |-> [x \in (DOMAIN v.members) \ {k} |-> v.members[x]]]
\* a node carrying only the required fields and a display name
MinimalObject(nm) ==
    [type |-> "object",
     members |-> [add |-> "a.example.com", port |-> "443", id |-> "uuid-1",
                  aid |-> "0", ps |-> nm]]
VmessLine(v) == [scheme |-> "vmess://", body |-> [kind |-> "json", value |-> v]]
GoodLine(i) == VmessLine(NodeObject(NodeName(i)))
RequiredKeys == {"add", "port", "id", "aid"}
\* the lines that may stand at position i, other than GoodLine(i)
OddLines(i) ==
    {[scheme |-> "", body |-> [kind |-> "blank"]],
     [scheme |-> "ss://YWVz", body |-> [kind |-> "opaque"]],
     [scheme |-> "vmess://", body |-> [kind |-> "badb64"]],
     [scheme |-> "vmess://", body |-> [kind |-> "badutf8"]],
     [scheme |-> "vmess://", body |-> [kind |-> "badjson"]],
     VmessLine([type |-> "number"]),
     VmessLine(Without(NodeObject(NodeName(i)), "ps")),
     VmessLine(NodeObject("")),
     VmessLine(NodeObject("direct")),
     VmessLine(NodeObject("block")),
     VmessLine(NodeObject(NodeName(IF i = 1 THEN 2 ELSE 1))),
     VmessLine([type |-> "object",
                members |-> [NodeObject(NodeName(i)).members
                               EXCEPT !["port"] = "https"]]),
     VmessLine(MinimalObject(NodeName(i)))}
    \cup {VmessLine(Without(NodeObject(NodeName(i)), k)) : k \in RequiredKeys}
LineCounts ==
    (0 .. MaxShort) \cup
    (DEFAULT_OUT_SERVER_INDEX .. DEFAULT_OUT_SERVER_INDEX + MaxExtra)
\* the decoded texts: all lines well formed, or exactly one odd line
Texts ==
    {[i \in 1 .. n |-> GoodLine(i)] : n \in LineCounts}
    \cup UNION {UNION {{[i \in 1 .. n |-> IF i = p THEN l ELSE GoodLine(i)]
                          : l \in OddLines(p)} : p \in 1 .. n}
                  : n \in LineCounts}
\* the contents a subscription file can have: base64 of UTF-8 text, base64 of
\* bytes that are not UTF-8, or not base64
Subscriptions ==
    {[kind |-> "badb64"], [kind |-> "badutf8"]}
    \cup {[kind |-> "text", lines |-> t] : t \in Texts}
\* the file system before the run: the subscription file is absent or holds
\* one of the contents
NoFiles == [f \in {} |-> ""]
InitialFiles ==
    {NoFiles} \cup {[f \in {DEFAULT_SUBSCRIBE_FILE} |-> c] : c \in Subscriptions}
\* what the subscription URL can serve
Responses ==
    {[kind |-> "badb64"],
     [kind |-> "text", lines |-> [i \in 1 .. MaxShort |-> GoodLine(i)]],
     [kind |-> "text",
      lines |-> [i \in 1 .. DEFAULT_OUT_SERVER_INDEX + 1 |-> GoodLine(i)]]}
\* the (--socks_port, --http_port) pairs: the defaults, overlapping ranges,
\* equal bases
PortArgs ==
    {<<DEFAULT_SOCKS_PORT, DEFAULT_HTTP_PORT>>,
     <<DEFAULT_SOCKS_PORT, DEFAULT_SOCKS_PORT + 1>>,
     <<DEFAULT_SOCKS_PORT, DEFAULT_SOCKS_PORT>>}

\* ---------------------------------------------------------------------------
\* Static sections
\* ---------------------------------------------------------------------------
create_log_config == [access |-> "", error |-> "", loglevel |-> "warning"]

create_dns_config ==
    [hosts |-> [x \in {"dns.google", "proxy.example.com"} |->
                  IF x = "dns.google" THEN "8.8.8.8" ELSE "127.0.0.1"],
     servers |->
       << [address |-> "1.1.1.1", skipFallback |-> TRUE,
           domains |-> <<"domain:googleapis.cn", "domain:gstatic.com">>],
          [address |-> "223.5.5.5", skipFallback |-> TRUE,
           domains |-> <<"geosite:cn", "geosite:geolocation-cn">>,
           expectIPs |-> <<"geoip:cn">>],
          "1.1.1.1",
          "8.8.8.8",
          "https://dns.google/dns-query",
          [address |-> "223.5.5.5",
           domains |-> <<"tanz-board.01byx31qzn.download">>,
           skipFallback |-> TRUE] >>]

\* ---------------------------------------------------------------------------
\* Inbounds
\* ---------------------------------------------------------------------------
\* f"socks5-{socks_port}" and f"http-{http_port}"
SocksTag(port) == "socks5-" \o ToString(port)
HttpTag(port) == "http-" \o ToString(port)
Sniffing ==
    [enabled |-> TRUE, destOverride |-> <<"http", "tls">>, routeOnly |-> FALSE]
InboundSettings == [auth |-> "noauth", udp |-> TRUE, allowTransparent |-> FALSE]
SocksInbound(socks_port, listen_address) ==
    [tag |-> SocksTag(socks_port), port |-> socks_port,
     listen |-> listen_address, protocol |-> "socks",
     sniffing |-> Sniffing, settings |-> InboundSettings]
HttpInbound(http_port, listen_address) ==
    [tag |-> HttpTag(http_port), port |-> http_port,
     listen |-> listen_address, protocol |-> "http",
     sniffing |-> Sniffing, settings |-> InboundSettings]
\* the list after the loop: for the node at Python index i (0-based) the
\* socks inbound stands at Python index 2i and the http inbound at 2i+1
create_inbounds_config(vmess_servers, socks_port_start, http_port_start, listen_address) ==
    [j \in 1 .. 2 * Len(vmess_servers) |->
       IF j % 2 = 1
       THEN SocksInbound(socks_port_start + (j - 1) \div 2, listen_address)
       ELSE HttpInbound(http_port_start + (j - 2) \div 2, listen_address)]

\* ---------------------------------------------------------------------------
\* Outbounds
\* ---------------------------------------------------------------------------
\* d[k] = v on a dict d
Put(d, k, v) == [x \in (DOMAIN d) \cup {k} |-> IF x = k THEN v ELSE d[x]]
\* s.split(",") for a string s that holds no comma
SplitComma(s) == <<s>>
\* bool(v) for v a string or None
Truthy(v) == v # None /\ v # ""

create_tls_settings(server_config) ==
    LET tls_settings ==
          [serverName |-> Get(server_config, "sni",
                              Get(server_config, "host", "")),
           allowInsecure |-> FALSE]
    IN  IF Truthy(Get(server_config, "alpn", None))
        THEN Put(tls_settings, "alpn",
                 SplitComma(Get(server_config, "alpn", None)))
        ELSE tls_settings

create_vnext_server_config(server_config) ==
    IF ~Has(server_config, "add") THEN Raise("KeyError")
    ELSE IF ~Has(server_config, "port") THEN Raise("KeyError")
    ELSE IF ~IntOf(server_config.members["port"]).ok THEN Raise("ValueError")
    ELSE IF ~Has(server_config, "id") THEN Raise("KeyError")
    ELSE IF ~Has(server_config, "aid") THEN Raise("KeyError")
    ELSE IF ~IntOf(server_config.members["aid"]).ok THEN Raise("ValueError")
    ELSE Ok([address |-> server_config.members["add"],
             port |-> IntOf(server_config.members["port"]).val,
             users |-> << [id |-> server_config.members["id"],
                           alterId |-> IntOf(server_config.members["aid"]).val,
                           email |-> "t@t.tt",
                           security |-> Get(server_config, "scy", "auto")] >>])

EmptyObject == [type |-> "object", members |-> [x \in {} |-> ""]]

create_single_outbound(server_config) ==
    IF ~Has(server_config, "ps") THEN Raise("KeyError")
    ELSE
    LET vnext == create_vnext_server_config(server_config)
        network == Get(server_config, "net", "tcp")
        security == Get(server_config, "tls", "none")
        mux == Get(server_config, "mux", EmptyObject)
        stream0 == [network |-> network, security |-> security]
        stream1 ==
          IF network = "ws"
          THEN Put(stream0, "wsSettings",
                   [path |-> Get(server_config, "path", "/"),
                    headers |-> [Host |-> Get(server_config, "host",
                                              server_config.members["add"])]])
          ELSE stream0
        stream2 ==
          IF security = "tls"
          THEN Put(stream1, "tlsSettings", create_tls_settings(server_config))
          ELSE stream1
    IN  IF ~vnext.ok THEN vnext
        ELSE Ok([tag |-> server_config.members["ps"],
                 protocol |-> "vmess",
                 settings |-> [vnext |-> <<vnext.val>>],
                 streamSettings |-> stream2,
                 mux |-> [enabled |-> Get(mux, "enabled", FALSE),
                          concurrency |-> Get(mux, "concurrency", -1)]])

DirectOutbound ==
    [tag |-> "direct", protocol |-> "freedom", settings |-> <<>>]
BlockOutbound ==
    [tag |-> "block", protocol |-> "blackhole",
     settings |-> [response |-> [type |-> "http"]]]

\* the list comprehension raises what its first failing element raises
create_outbounds_config(vmess_servers) ==
    LET outs == [j \in 1 .. Len(vmess_servers) |->
                   create_single_outbound(vmess_servers[j])]
    IN  IF \E j \in 1 .. Len(outs) : ~outs[j].ok
        THEN outs[CHOOSE j \in 1 .. Len(outs) :
                    /\ ~outs[j].ok
                    /\ \A m \in 1 .. j - 1 : outs[m].ok]
        ELSE Ok([j \in 1 .. Len(outs) |-> outs[j].val]
                \o <<DirectOutbound, BlockOutbound>>)

\* ---------------------------------------------------------------------------
\* Routing and the in-out map
\* ---------------------------------------------------------------------------
LocalDnsIps ==
    <<
           "223.5.5.5", "223.6.6.6", "2400:3200::1",
           "2400:3200:baba::1", "119.29.29.29", "1.12.12.12",
           "120.53.53.53", "2402:4e00::", "2402:4e00:1::",
           "180.76.76.76", "2400:da00::6666", "114.114.114.114",
           "114.114.115.115", "114.114.114.119", "114.114.115.119",
           "114.114.114.110", "114.114.115.110", "180.184.1.1",
           "180.184.2.2", "101.226.4.6", "218.30.118.6",
           "123.125.81.6", "140.207.198.6", "1.2.4.8",
           "210.2.4.8", "52.80.66.66", "117.50.22.22",
           "2400:7fc0:849e:200::4", "2404:c2c0:85d8:901::4", "117.50.10.10",
           "52.80.52.52", "2400:7fc0:849e:200::8", "2404:c2c0:85d8:901::8",
           "117.50.60.30", "52.80.60.30" >>

\* the rules literal; designated is vmess_servers[DEFAULT_OUT_SERVER_INDEX]
\* .get("ps")
PreludeRules(designated) ==
    << [type |-> "field", inboundTag |-> <<"api">>, outboundTag |-> "api"],
       [type |-> "field", outboundTag |-> designated,
        domain |-> <<"domain:googleapis.cn", "domain:gstatic.com">>],
       [type |-> "field", port |-> "443", network |-> "udp",
        outboundTag |-> "block"],
       [type |-> "field", outboundTag |-> "direct", ip |-> <<"geoip:private">>],
       [type |-> "field", outboundTag |-> "direct",
        domain |-> <<"geosite:cn", "geosite:geolocation-cn">>],
       [type |-> "field", outboundTag |-> "direct",
        domain |-> <<"domain:alidns.com", "domain:doh.pub", "domain:dot.pub",
                     "domain:360.cn", "domain:onedns.net">>],
       [type |-> "field", outboundTag |-> "direct", ip |-> LocalDnsIps],
       [type |-> "field", outboundTag |-> "direct", ip |-> <<"geoip:cn">>] >>

RECURSIVE RoutingLoop(_, _, _, _, _, _)

\* f"{socks_inbound_tag} / {http_inbound_tag}"
MapKey(socks_inbound_tag, http_inbound_tag) ==
    socks_inbound_tag \o " / " \o http_inbound_tag

\* d[k] = v on a dict d kept as its sequence of <<key, value>> items in
\* insertion order: a present key keeps its place
DictSet(d, k, v) ==
    IF \E j \in 1 .. Len(d) : d[j][1] = k
    THEN [j \in 1 .. Len(d) |-> IF d[j][1] = k THEN <<k, v>> ELSE d[j]]
    ELSE Append(d, <<k, v>>)

\* variant: the http tag is formatted from the socks port
PerNodeRule_HttpFromSocks(server, socks_port_start, http_port_start, i) ==
    [type |-> "field",
     inboundTag |-> <<SocksTag(socks_port_start + i),
                      HttpTag(socks_port_start + i)>>,
     outboundTag |-> Get(server, "ps", None)]

\* one pass of the body of the for loop, i the 0-based index of enumerate
PerNodeRule(server, socks_port_start, http_port_start, i) ==
    [type |-> "field",
     inboundTag |-> <<SocksTag(socks_port_start + i),
                      HttpTag(http_port_start + i)>>,
     outboundTag |-> Get(server, "ps", None)]

RoutingLoop(vmess_servers, socks_port_start, http_port_start, i, rules, map) ==
    IF i >= Len(vmess_servers) THEN Ok(<<rules, map>>)
    ELSE IF ~IsDict(vmess_servers[i + 1]) THEN Raise("AttributeError")
    ELSE LET server == vmess_servers[i + 1]
             rule == PerNodeRule(server, socks_port_start, http_port_start, i)
         IN  RoutingLoop(vmess_servers, socks_port_start, http_port_start,
                         i + 1, Append(rules, rule),
                         DictSet(map,
                                 MapKey(rule.inboundTag[1], rule.inboundTag[2]),
                                 rule.outboundTag))

\* variant: the per-node rules are collected first and the fixed rules are
\* added after them
create_routing_config_PerNodeFirst(vmess_servers, socks_port_start, http_port_start) ==
    IF Len(vmess_servers) <= DEFAULT_OUT_SERVER_INDEX THEN Raise("IndexError")
    ELSE IF ~IsDict(vmess_servers[DEFAULT_OUT_SERVER_INDEX + 1])
    THEN Raise("AttributeError")
    ELSE
    LET prelude ==
          PreludeRules(Get(vmess_servers[DEFAULT_OUT_SERVER_INDEX + 1],
                           "ps", None))
        looped == RoutingLoop(vmess_servers, socks_port_start, http_port_start,
                              0, <<>>, <<>>)
    IN  IF ~looped.ok THEN looped
        ELSE Ok(<<[domainStrategy |-> "AsIs",
                   rules |-> looped.val[1] \o prelude],
                  looped.val[2]>>)

\* returns <<routing_rules, inbound_outbound_map>>
create_routing_config(vmess_servers, socks_port_start, http_port_start) ==
    IF Len(vmess_servers) <= DEFAULT_OUT_SERVER_INDEX THEN Raise("IndexError")
    ELSE IF ~IsDict(vmess_servers[DEFAULT_OUT_SERVER_INDEX + 1])
    THEN Raise("AttributeError")
    ELSE
    LET prelude ==
          PreludeRules(Get(vmess_servers[DEFAULT_OUT_SERVER_INDEX + 1],
                           "ps", None))
        looped == RoutingLoop(vmess_servers, socks_port_start, http_port_start,
                              0, prelude, <<>>)
    IN  IF ~looped.ok THEN looped
        ELSE Ok(<<[domainStrategy |-> "AsIs", rules |-> looped.val[1]],
                  looped.val[2]>>)

\* returns <<v2ray_config, in_out_map>>
build_v2ray_config(vmess_servers, socks_port, http_port, listen_address) ==
    LET routed == create_routing_config(vmess_servers, socks_port, http_port)
        outbounds == create_outbounds_config(vmess_servers)
    IN  IF ~routed.ok THEN routed
        ELSE IF ~outbounds.ok THEN outbounds
        ELSE Ok(<<[log |-> create_log_config,
                   dns |-> create_dns_config,
                   inbounds |-> create_inbounds_config(vmess_servers,
                                  socks_port, http_port, listen_address),
                   outbounds |-> outbounds.val,
                   routing |-> routed.val[1]],
                  routed.val[2]>>)

\* ---------------------------------------------------------------------------
\* The decoder
\* ---------------------------------------------------------------------------
\* base64.b64decode(x).decode('utf-8') of the whole file
DecodeContent(content) ==
    IF content.kind = "badb64" THEN Raise("binascii.Error")
    ELSE IF content.kind = "badutf8" THEN Raise("UnicodeDecodeError")
    ELSE Ok(content.lines)
\* [unquote(url) for url in decoded_content.splitlines() if url.strip()]
NonBlank(line) == line.body.kind # "blank"
SplitUrls(lines) == SelectSeq(lines, NonBlank)
\* url.startswith("vmess://")
IsVmess(url) == url.scheme = "vmess://"
\* json.loads(base64.b64decode(url[8:]).decode('utf-8'))
DecodeVmess(url) ==
    IF url.body.kind = "badb64" THEN Raise("binascii.Error")
    ELSE IF url.body.kind = "badutf8" THEN Raise("UnicodeDecodeError")
    ELSE IF url.body.kind = "badjson" THEN Raise("json.JSONDecodeError")
    ELSE Ok(url.body.value)
\* the classes of the except clause inside the loop
InnerCaught == {"json.JSONDecodeError", "binascii.Error"}

\* ---------------------------------------------------------------------------
\* Output paths of main() for the default --output and --map
\* ---------------------------------------------------------------------------
local_config_file == "./config/config_local.json"
lan_config_file == "./config/config_lan.json"
OutputFiles ==
    {local_config_file, lan_config_file, INBOUND_OUTBOUND_MAP_FILE,
     INBOUND_OUTBOUND_MAP_CSV_FILE}

\* ---------------------------------------------------------------------------
\* State
\* ---------------------------------------------------------------------------
VARIABLES
    pc,                 \* position of the run in main()
    args,               \* parsed command line: socks_port, http_port, url
    files,              \* the file system: path -> content, existing files only
    urls,               \* the decoded, non-blank subscription lines
    idx,                \* number of urls the decoder loop has consumed
    vmess_servers,      \* the node list
    skipped,            \* urls reported as "Skipping invalid VMess URL"
    v2ray_config_local, \* main()'s local of that name
    in_out_map,         \* main()'s local of that name
    v2ray_config_lan,   \* main()'s local of that name
    lan_map,            \* the second value returned by the LAN build ("_")
    error               \* how the run ended: "", a sys.exit or an exception

vars == <<pc, args, files, urls, idx, vmess_servers, skipped,
          v2ray_config_local, in_out_map, v2ray_config_lan, lan_map, error>>

Init ==
    /\ pc = "parse_args"
    /\ args = [socks_port |-> DEFAULT_SOCKS_PORT,
               http_port |-> DEFAULT_HTTP_PORT, url |-> FALSE]
    /\ files \in InitialFiles
    /\ urls = <<>>
    /\ idx = 0
    /\ vmess_servers = <<>>
    /\ skipped = <<>>
    /\ v2ray_config_local = Unbound
    /\ in_out_map = Unbound
    /\ v2ray_config_lan = Unbound
    /\ lan_map = Unbound
    /\ error = ""

\* sys.exit(msg)
Exit(msg) == pc' = "exit" /\ error' = msg
\* an exception nothing catches ends main() with a traceback
Crash(exc) == pc' = "crash" /\ error' = exc

\* args = parser.parse_args()
ParseArgs ==
    /\ pc = "parse_args"
    /\ \E p \in PortArgs, u \in BOOLEAN :
         args' = [socks_port |-> p[1], http_port |-> p[2], url |-> u]
    /\ pc' = IF args'.url THEN "download" ELSE "check_file"
    /\ UNCHANGED <<files, urls, idx, vmess_servers, skipped,
                   v2ray_config_local, in_out_map, v2ray_config_lan, lan_map,
                   error>>

\* download_subscription_content(args.url, subscription_file)
download_subscription_content ==
    /\ pc = "download"
    /\ \/ /\ Exit("Failed to download subscription link")
          /\ UNCHANGED files
       \/ /\ \E r \in Responses :
               files' = Put(files, DEFAULT_SUBSCRIBE_FILE, r)
          /\ pc' = "check_file"
          /\ UNCHANGED error
    /\ UNCHANGED <<args, urls, idx, vmess_servers, skipped,
                   v2ray_config_local, in_out_map, v2ray_config_lan, lan_map>>

\* if not os.path.exists(subscription_file): sys.exit(...)
CheckFile ==
    /\ pc = "check_file"
    /\ IF DEFAULT_SUBSCRIBE_FILE \in DOMAIN files
       THEN pc' = "read" /\ UNCHANGED error
       ELSE Exit("Subscription file not found")
    /\ UNCHANGED <<args, files, urls, idx, vmess_servers, skipped,
                   v2ray_config_local, in_out_map, v2ray_config_lan, lan_map>>

\* extract_vmess_servers_from_subscription up to the loop: read and decode
\* the file, split it, write the decoded urls
ReadSubscription ==
    /\ pc = "read"
    /\ LET decoded == DecodeContent(files[DEFAULT_SUBSCRIBE_FILE])
       IN  IF decoded.ok
           THEN /\ urls' = SplitUrls(decoded.val)
                /\ files' = Put(files, DECODED_URLS_FILE, urls')
                /\ pc' = "loop"
                /\ UNCHANGED error
           ELSE /\ Exit("An error occurred while processing the subscription file")
                /\ UNCHANGED <<urls, files>>
    /\ UNCHANGED <<args, idx, vmess_servers, skipped,
                   v2ray_config_local, in_out_map, v2ray_config_lan, lan_map>>

\* one pass of "for url in urls"
DecodeUrl ==
    /\ pc = "loop"
    /\ idx < Len(urls)
    /\ idx' = idx + 1
    /\ LET url == urls[idx + 1]
           decoded == DecodeVmess(url)
       IN  IF ~IsVmess(url)
           THEN UNCHANGED <<pc, error, vmess_servers, skipped>>
           ELSE IF decoded.ok
           THEN /\ vmess_servers' = Append(vmess_servers, decoded.val)
                /\ UNCHANGED <<pc, error, skipped>>
           ELSE IF decoded.exc \in InnerCaught
           THEN /\ skipped' = Append(skipped, url)
                /\ UNCHANGED <<pc, error, vmess_servers>>
           ELSE /\ Exit("An error occurred while processing the subscription file")
                /\ UNCHANGED <<vmess_servers, skipped>>
    /\ UNCHANGED <<args, files, urls,
                   v2ray_config_local, in_out_map, v2ray_config_lan, lan_map>>

\* after the loop: write the server details and return the list
ReturnServers ==
    /\ pc = "loop"
    /\ idx = Len(urls)
    /\ files' = Put(files, SERVER_DETAILS_FILE, vmess_servers)
    /\ pc' = "check_servers"
    /\ UNCHANGED <<args, urls, idx, vmess_servers, skipped,
                   v2ray_config_local, in_out_map, v2ray_config_lan, lan_map,
                   error>>

\* if not vmess_servers: sys.exit(...)
CheckServers ==
    /\ pc = "check_servers"
    /\ IF vmess_servers = <<>>
       THEN Exit("No valid VMess servers found in the subscription.")
       ELSE pc' = "build_local" /\ UNCHANGED error
    /\ UNCHANGED <<args, files, urls, idx, vmess_servers, skipped,
                   v2ray_config_local, in_out_map, v2ray_config_lan, lan_map>>

\* variant: the local document is written as soon as it is built
BuildLocal_WritesEarly ==
    /\ pc = "build_local"
    /\ LET built == build_v2ray_config(vmess_servers, args.socks_port,
                                       args.http_port, "127.0.0.1")
       IN  IF built.ok
           THEN /\ v2ray_config_local' = Bound(built.val[1])
                /\ in_out_map' = Bound(built.val[2])
                /\ files' = Put(files, local_config_file, v2ray_config_local')
                /\ pc' = "build_lan"
                /\ UNCHANGED error
           ELSE /\ Crash(built.exc)
                /\ UNCHANGED <<v2ray_config_local, in_out_map, files>>
    /\ UNCHANGED <<args, urls, idx, vmess_servers, skipped,
                   v2ray_config_lan, lan_map>>

\* v2ray_config_local, in_out_map = build_v2ray_config(..., "127.0.0.1")
BuildLocal ==
    /\ pc = "build_local"
    /\ LET built == build_v2ray_config(vmess_servers, args.socks_port,
                                       args.http_port, "127.0.0.1")
       IN  IF built.ok
           THEN /\ v2ray_config_local' = Bound(built.val[1])
                /\ in_out_map' = Bound(built.val[2])
                /\ pc' = "build_lan"
                /\ UNCHANGED error
           ELSE /\ Crash(built.exc)
                /\ UNCHANGED <<v2ray_config_local, in_out_map>>
    /\ UNCHANGED <<args, files, urls, idx, vmess_servers, skipped,
                   v2ray_config_lan, lan_map>>

\* variant: the LAN document is built from the default base ports
BuildLan_DefaultPorts ==
    /\ pc = "build_lan"
    /\ LET built == build_v2ray_config(vmess_servers, DEFAULT_SOCKS_PORT,
                                       DEFAULT_HTTP_PORT, "0.0.0.0")
       IN  IF built.ok
           THEN /\ v2ray_config_lan' = Bound(built.val[1])
                /\ lan_map' = Bound(built.val[2])
                /\ pc' = "write_local"
                /\ UNCHANGED error
           ELSE /\ Crash(built.exc)
                /\ UNCHANGED <<v2ray_config_lan, lan_map>>
    /\ UNCHANGED <<args, files, urls, idx, vmess_servers, skipped,
                   v2ray_config_local, in_out_map>>

\* v2ray_config_lan, _ = build_v2ray_config(..., "0.0.0.0")
BuildLan ==
    /\ pc = "build_lan"
    /\ LET built == build_v2ray_config(vmess_servers, args.socks_port,
                                       args.http_port, "0.0.0.0")
       IN  IF built.ok
           THEN /\ v2ray_config_lan' = Bound(built.val[1])
                /\ lan_map' = Bound(built.val[2])
                /\ pc' = "write_local"
                /\ UNCHANGED error
           ELSE /\ Crash(built.exc)
                /\ UNCHANGED <<v2ray_config_lan, lan_map>>
    /\ UNCHANGED <<args, files, urls, idx, vmess_servers, skipped,
                   v2ray_config_local, in_out_map>>

\* with open(path, "w") ...: json.dump(value, f)
WriteStep(at, path, value, next) ==
    /\ pc = at
    /\ files' = Put(files, path, value)
    /\ pc' = next
    /\ UNCHANGED <<args, urls, idx, vmess_servers, skipped,
                   v2ray_config_local, in_out_map, v2ray_config_lan, lan_map,
                   error>>

WriteLocal ==
    WriteStep("write_local", local_config_file, v2ray_config_local,
              "write_lan")
WriteLan ==
    WriteStep("write_lan", lan_config_file, v2ray_config_lan, "write_map")
WriteMap ==
    WriteStep("write_map", INBOUND_OUTBOUND_MAP_FILE, in_out_map, "write_csv")
\* pd.DataFrame(list(in_out_map.items()), ...).to_csv(...)
WriteCsv ==
    WriteStep("write_csv", INBOUND_OUTBOUND_MAP_CSV_FILE, in_out_map, "done")

Next ==
    \/ ParseArgs
    \/ download_subscription_content
    \/ CheckFile
    \/ ReadSubscription
    \/ DecodeUrl
    \/ ReturnServers
    \/ CheckServers
    \/ BuildLocal
    \/ BuildLan
    \/ WriteLocal
    \/ WriteLan
    \/ WriteMap
    \/ WriteCsv

Spec == Init /\ [][Next]_vars

\* ---------------------------------------------------------------------------
\* Vocabulary of the properties
\* ---------------------------------------------------------------------------
\* the documents built so far, local first
Documents == v2ray_config_local \o v2ray_config_lan
N == Len(vmess_servers)
\* the positions of main() after the local build was attempted
AfterLocalBuild ==
    pc \in {"build_lan", "write_local", "write_lan", "write_map", "write_csv",
            "done", "crash"}
\* the positions of main() at which the node list is in the assembler's hands
HandedToAssembler == pc = "build_local" \/ AfterLocalBuild
Tags(items) == {items[j].tag : j \in 1 .. Len(items)}
Distinct(items) == \A j, m \in 1 .. Len(items) : j # m => items[j] # items[m]
TagsOf(items) == [j \in 1 .. Len(items) |-> items[j].tag]
PortsOf(items) == [j \in 1 .. Len(items) |-> items[j].port]
\* a node with every required field, numeric port and alter-id, and a name
ValidNode(v) ==
    /\ IsDict(v)
    /\ RequiredKeys \cup {"ps"} \subseteq DOMAIN v.members
    /\ IntOf(v.members["port"]).ok
    /\ IntOf(v.members["aid"]).ok
\* a list of valid nodes whose names are usable as outbound tags
ValidNodeList(vs) ==
    /\ \A j \in 1 .. Len(vs) : ValidNode(vs[j])
    /\ \A j \in 1 .. Len(vs) : vs[j].members["ps"] \notin {"", "direct", "block"}
    /\ \A j, m \in 1 .. Len(vs) :
         j # m => vs[j].members["ps"] # vs[m].members["ps"]
RangesOverlap ==
    \E j, m \in 0 .. N - 1 : args.socks_port + j = args.http_port + m

\* ---------------------------------------------------------------------------
\* C1
\* ---------------------------------------------------------------------------
\* C1: once the local build has been attempted on a list of N >= 1 valid
\* nodes (N < 30 included), it has returned a document with exactly 2N
\* inbounds, N+2 outbounds and 8+N routing rules.
C1_CountsForEveryN ==
    (AfterLocalBuild /\ N >= 1 /\ ValidNodeList(vmess_servers)) =>
        /\ v2ray_config_local # Unbound
        /\ Len(v2ray_config_local[1].inbounds) = 2 * N
        /\ Len(v2ray_config_local[1].outbounds) = N + 2
        /\ Len(v2ray_config_local[1].routing.rules) = 8 + N

\* ---------------------------------------------------------------------------
\* C2
\* ---------------------------------------------------------------------------
\* C2: in every document built, the inbound tags are pairwise distinct and
\* the outbound tags (node tags, "direct", "block") are pairwise distinct,
\* whatever display names the nodes carry.
C2_TagsDistinct ==
    \A k \in 1 .. Len(Documents) :
        /\ Distinct(TagsOf(Documents[k].inbounds))
        /\ Distinct(TagsOf(Documents[k].outbounds))

\* ---------------------------------------------------------------------------
\* C3
\* ---------------------------------------------------------------------------
\* C3: when the socks and http port ranges overlap no document is built, and
\* no document built holds two inbounds with the same port.
C3_NoPortCollision ==
    /\ RangesOverlap => Documents = <<>>
    /\ \A k \in 1 .. Len(Documents) : Distinct(PortsOf(Documents[k].inbounds))

\* ---------------------------------------------------------------------------
\* C4
\* ---------------------------------------------------------------------------
HasKey(rule, k) == k \in DOMAIN rule
\* the eight fixed rules, each recognised by its match criteria
IsPrelude(rules, designated) ==
    /\ rules[1].inboundTag = <<"api">> /\ rules[1].outboundTag = "api"
    /\ rules[2].domain = <<"domain:googleapis.cn", "domain:gstatic.com">>
    /\ rules[2].outboundTag = designated
    /\ rules[3].port = "443" /\ rules[3].network = "udp"
    /\ rules[3].outboundTag = "block"
    /\ rules[4].ip = <<"geoip:private">> /\ rules[4].outboundTag = "direct"
    /\ rules[5].domain = <<"geosite:cn", "geosite:geolocation-cn">>
    /\ rules[5].outboundTag = "direct"
    /\ HasKey(rules[6], "domain") /\ rules[6].domain[1] = "domain:alidns.com"
    /\ Len(rules[6].domain) = 5 /\ rules[6].outboundTag = "direct"
    /\ HasKey(rules[7], "ip") /\ rules[7].ip[1] = "223.5.5.5"
    /\ Len(rules[7].ip) = 35 /\ rules[7].outboundTag = "direct"
    /\ rules[8].ip = <<"geoip:cn">> /\ rules[8].outboundTag = "direct"
\* a rule keyed on a node's pair of inbound tags
IsPerNodeRule(rule) == HasKey(rule, "inboundTag") /\ Len(rule.inboundTag) = 2

\* C4: in every document built, positions 0..7 of the rule list hold the
\* eight prelude rules in the specified order, none of them a per-node rule,
\* and the per-node rule of node i stands at position 8+i.
C4_PreludeFirst ==
    \A k \in 1 .. Len(Documents) :
        LET rules == Documents[k].routing.rules
        IN  /\ Len(rules) = 8 + N
            /\ IsPrelude(rules,
                 vmess_servers[DEFAULT_OUT_SERVER_INDEX + 1].members["ps"])
            /\ \A j \in 1 .. 8 : ~IsPerNodeRule(rules[j])
            /\ \A i \in 0 .. N - 1 :
                 /\ IsPerNodeRule(rules[8 + i + 1])
                 /\ rules[8 + i + 1].type = "field"
                 /\ rules[8 + i + 1].inboundTag[1]
                      = "socks5-" \o ToString(args.socks_port + i)
                 /\ rules[8 + i + 1].outboundTag
                      = vmess_servers[i + 1].members["ps"]
C4_Witness ==
    /\ pc = "done"
    /\ Len(Documents) = 2
    /\ N > DEFAULT_OUT_SERVER_INDEX + 1
    /\ vmess_servers[1].members["ps"]
         # vmess_servers[DEFAULT_OUT_SERVER_INDEX + 1].members["ps"]

\* ---------------------------------------------------------------------------
\* C5
\* ---------------------------------------------------------------------------
\* C5: in every document built, for every node index i the per-node rule has
\* inboundTag = [tag of inbound 2i, tag of inbound 2i+1] =
\* ["socks5-"+(socksBase+i), "http-"+(httpBase+i)] and outboundTag = tag of
\* outbound i, and every inbound's tag is its protocol prefix followed by its
\* own port.
C5_RuleJoinsInboundsAndOutbound ==
    \A k \in 1 .. Len(Documents) :
        LET doc == Documents[k]
        IN  /\ \A i \in 0 .. N - 1 :
                 LET rule == doc.routing.rules[8 + i + 1]
                 IN  /\ rule.inboundTag = <<doc.inbounds[2 * i + 1].tag,
                                            doc.inbounds[2 * i + 2].tag>>
                     /\ rule.inboundTag =
                          <<"socks5-" \o ToString(args.socks_port + i),
                            "http-" \o ToString(args.http_port + i)>>
                     /\ rule.outboundTag = doc.outbounds[i + 1].tag
                     /\ rule.outboundTag \in Tags(doc.outbounds)
                     /\ rule.inboundTag[1] \in Tags(doc.inbounds)
                     /\ rule.inboundTag[2] \in Tags(doc.inbounds)
            /\ \A j \in 1 .. Len(doc.inbounds) :
                 doc.inbounds[j].tag =
                   (IF doc.inbounds[j].protocol = "socks"
                    THEN "socks5-" ELSE "http-")
                   \o ToString(doc.inbounds[j].port)
C5_Witness ==
    /\ Len(Documents) = 2
    /\ N > DEFAULT_OUT_SERVER_INDEX
    /\ args.socks_port # args.http_port
    /\ Documents[2].routing.rules[8 + N].inboundTag[2]
         = Documents[2].inbounds[2 * N].tag

\* ---------------------------------------------------------------------------
\* C6
\* ---------------------------------------------------------------------------
\* the table the claim describes for the node list and the base ports
ExpectedMap ==
    [j \in 1 .. N |->
       <<"socks5-" \o ToString(args.socks_port + j - 1) \o " / " \o
         "http-" \o ToString(args.http_port + j - 1),
         vmess_servers[j].members["ps"]>>]

\* C6: once the local build has been attempted on a list of N >= 1 valid
\* nodes (2 nodes with bases 50001 and 51001 included), the mapping table
\* returned has exactly N entries in node order, entry i being
\* "<socksTag_i> / <httpTag_i>" -> display name of node i.
C6_MapForEveryN ==
    (AfterLocalBuild /\ N >= 1 /\ ValidNodeList(vmess_servers)) =>
        /\ in_out_map # Unbound
        /\ in_out_map[1] = ExpectedMap

\* ---------------------------------------------------------------------------
\* C7
\* ---------------------------------------------------------------------------
LoopAborted ==
    /\ pc = "exit"
    /\ idx > 0
    /\ error = "An error occurred while processing the subscription file"
RECURSIVE ParsedValues(_)
\* the values of the lines that decode to JSON, in order
ParsedValues(us) ==
    IF us = <<>> THEN <<>>
    ELSE IF IsVmess(Head(us)) /\ Head(us).body.kind = "json"
    THEN <<Head(us).body.value>> \o ParsedValues(Tail(us))
    ELSE ParsedValues(Tail(us))

\* C7: no single vmess URI whose payload fails to decode (invalid base64,
\* bytes that are not UTF-8, text that is not JSON) aborts the run: the loop
\* never exits the program, and the list returned is the successfully parsed
\* URIs in order.
C7_BadUriNeverAborts ==
    /\ ~LoopAborted
    /\ pc = "check_servers" => vmess_servers = ParsedValues(urls)

\* ---------------------------------------------------------------------------
\* C8
\* ---------------------------------------------------------------------------
\* C8: a node record lacking one of add, port, id, aid never stands in the
\* list handed to the assembler and never makes the run fail.
C8_IncompleteNodeExcluded ==
    /\ HandedToAssembler =>
         \A j \in 1 .. N :
           IsDict(vmess_servers[j]) =>
             RequiredKeys \subseteq DOMAIN vmess_servers[j].members
    /\ ~(/\ pc = "crash"
         /\ error = "KeyError"
         /\ \A j \in 1 .. N : IsDict(vmess_servers[j]) /\ Has(vmess_servers[j], "ps")
         /\ \E j \in 1 .. N :
              ~(RequiredKeys \subseteq DOMAIN vmess_servers[j].members))

\* ---------------------------------------------------------------------------
\* C9
\* ---------------------------------------------------------------------------
WithListen(inbounds, a) ==
    [j \in 1 .. Len(inbounds) |-> [inbounds[j] EXCEPT !.listen = a]]

\* C9: once both documents are built they agree on log, dns, outbounds and
\* routing, and on every inbound field but listen; every inbound of the first
\* listens on 127.0.0.1, every inbound of the second on 0.0.0.0; both builds
\* return the same mapping table.
C9_VariantsDifferInListenOnly ==
    Len(Documents) = 2 =>
        LET local == Documents[1]
            lan == Documents[2]
        IN  /\ local.log = lan.log
            /\ local.dns = lan.dns
            /\ local.outbounds = lan.outbounds
            /\ local.routing = lan.routing
            /\ Len(local.inbounds) = Len(lan.inbounds)
            /\ WithListen(local.inbounds, "") = WithListen(lan.inbounds, "")
            /\ \A j \in 1 .. Len(local.inbounds) :
                 /\ local.inbounds[j].listen = "127.0.0.1"
                 /\ lan.inbounds[j].listen = "0.0.0.0"
            /\ in_out_map = lan_map
C9_Witness ==
    /\ pc = "write_local"
    /\ Len(Documents) = 2
    /\ Len(Documents[1].inbounds) = 2 * N
    /\ N > DEFAULT_OUT_SERVER_INDEX
    /\ args.socks_port # args.http_port

\* ---------------------------------------------------------------------------
\* C10
\* ---------------------------------------------------------------------------
WrittenOutputs == OutputFiles \cap DOMAIN files

\* C10: a run that ended in a fatal error (sys.exit or an uncaught exception)
\* has written none of the four output files, and an output file exists only
\* once both documents and the mapping table are bound.
C10_NoOutputOnFatal ==
    /\ pc \in {"exit", "crash"} => WrittenOutputs = {}
    /\ WrittenOutputs # {} =>
         /\ v2ray_config_local # Unbound
         /\ v2ray_config_lan # Unbound
         /\ in_out_map # Unbound
C10_Witness ==
    /\ pc = "crash"
    /\ error = "KeyError"
    /\ N > DEFAULT_OUT_SERVER_INDEX
    /\ WrittenOutputs = {}
    /\ SERVER_DETAILS_FILE \in DOMAIN files

====
